---------------------------- MODULE Spec2Model ----------------------------
(***************************************************************************)
(* Automotive wiring diagnostics: the fault-pattern matcher                *)
(* (scripts/fault-patterns.py), the preprocessing pipeline                 *)
(* (scripts/data-preprocessing.py) and the automated collection pipeline   *)
(* (scripts/automated-pipeline.py).                                        *)
(*                                                                         *)
(* Python strings are TLA+ strings; Len, SubSeq and \o act on them as on   *)
(* sequences of characters.  A missing value (None / NaN) is NaN.          *)
(* Each component has a specification of its own; the variables of the     *)
(* other components stay at their idle values.                             *)
(***************************************************************************)
EXTENDS Integers, Sequences, FiniteSets, TLC

VARIABLES
    symptoms,       \* fault-patterns.py: the argument of analyze_symptoms
    matches,        \* fault-patterns.py: the list analyze_symptoms returns
    m_pc,           \* "call" before analyze_symptoms runs, "done" after
    codes,          \* data-preprocessing.py: the argument of clean_dtc_codes
    found_codes,    \* data-preprocessing.py: the string clean_dtc_codes returns
    d_pc,           \* "call" before clean_dtc_codes runs, "done" after
    target,         \* encode_labels: the column df[target_column]
    labels,         \* encode_labels: the labels after the mapping loop
    encoded_labels, \* encode_labels: le.fit_transform(labels)
    class_names,    \* encode_labels: le.classes_
    l_pc,           \* "call" before encode_labels runs, "done" after
    c_pc,           \* automated-pipeline.py: position of the scheduler thread
    task,           \* state of each submitted collection task (its future)
    result,         \* what each future holds once its task has finished
    uncaught,       \* the sources whose future holds an exception
    failed,         \* the sources whose collaborator raised in this run
    collected_data, \* the argument of validate_and_store_data
    log,            \* the records written to self.logger
    runs,           \* daily runs started so far
    raw,            \* clean_data: the record set it is given
    df_clean,       \* clean_data(raw)
    df_twice,       \* clean_data(clean_data(raw))
    k_pc,           \* "raw", then "clean" after one pass, "twice" after two
    args,           \* preprocess_pipeline: data_path (the files it holds) and
                    \* target_column
    locals,         \* preprocess_pipeline: df, df_clean, features, labels,
                    \* class_names
    self,           \* the preprocessor: label_encoders, scaler,
                    \* symptom_vectorizer, feature_names
    output,         \* the output directory: its files and metadata.json
    p_pc,           \* position in preprocess_pipeline
    p_error,        \* the message of the exception that ended the run
    stages,         \* the stages the current run has executed, in order
    batch,          \* the run under way: "fit" (the first on this preprocessor)
                    \* or "later"
    fit_state,      \* the preprocessor as the first run left it
    vehicle_df,     \* extract_vehicle_features: the record set it is given
    vehicle_features, \* extract_vehicle_features: the block it returns
    v_pc            \* "call" before extract_vehicle_features runs, "done" after

matcherVars == <<symptoms, matches, m_pc>>
dtcVars == <<codes, found_codes, d_pc>>
labelVars == <<target, labels, encoded_labels, class_names, l_pc>>
cleanVars == <<raw, df_clean, df_twice, k_pc>>
pipeVars ==
    <<args, locals, self, output, p_pc, p_error, stages, batch, fit_state>>
collectVars ==
    <<c_pc, task, result, uncaught, failed, collected_data, log, runs>>
vehicleVars == <<vehicle_df, vehicle_features, v_pc>>

vars == <<symptoms, matches, m_pc, codes, found_codes, d_pc,
          target, labels, encoded_labels, class_names, l_pc,
          c_pc, task, result, uncaught, failed, collected_data, log, runs,
          raw, df_clean, df_twice, k_pc,
          args, locals, self, output, p_pc, p_error, stages, batch, fit_state,
          vehicle_df, vehicle_features, v_pc>>

(***************************************************************************)
(* Bounds of the model.                                                    *)
(***************************************************************************)
MaxSymptoms == 3
MaxDtcLen == 5
MaxLabelRows == 2
MaxRuns == 2
MaxRows == 2

(***************************************************************************)
(* Generic helpers on sequences.                                           *)
(***************************************************************************)
Range(s) == {s[i] : i \in 1..Len(s)}

SeqsUpTo(S, n) == UNION {[1..k -> S] : k \in 0..n}

NoDuplicates(s) == \A i, j \in 1..Len(s) : s[i] = s[j] => i = j

(***************************************************************************)
(* fault-patterns.py: the knowledge base, in declaration order.            *)
(***************************************************************************)
PatternNames ==
    <<"wire_degradation", "connector_corrosion", "terminal_crimping_failure",
      "insulation_failure", "electromagnetic_interference">>

PatternSymptoms(name) ==
    CASE name = "wire_degradation" ->
           <<"intermittent_connection", "voltage_drop", "resistance_increase">>
      [] name = "connector_corrosion" ->
           <<"high_resistance", "signal_loss", "dtc_codes">>
      [] name = "terminal_crimping_failure" ->
           <<"intermittent_connection", "complete_signal_loss", "arcing">>
      [] name = "insulation_failure" ->
           <<"short_circuits", "blown_fuses", "electrical_fires">>
      [] name = "electromagnetic_interference" ->
           <<"signal_disruption", "false_readings", "communication_errors">>

\* The tags an input may hold: every tag of the knowledge base and one
\* tag that no entry lists.
SymptomTags ==
    UNION {Range(PatternSymptoms(PatternNames[i])) : i \in 1..Len(PatternNames)}
      \cup {"unknown_tag"}

(***************************************************************************)
(* analyze_symptoms.  A score is the pair <<match_score, len(symptoms)>>   *)
(* standing for the quotient match_score / len(pattern_data['symptoms']).  *)
(***************************************************************************)
RECURSIVE MatchScoreFrom(_, _, _)
MatchScoreFrom(syms, plist, i) ==
    IF i > Len(syms) THEN 0
    ELSE (IF syms[i] \in Range(plist) THEN 1 ELSE 0)
           + MatchScoreFrom(syms, plist, i + 1)

\* mutant: the inner loop stops after the first matching symptom
MatchScoreFirstOnly(syms, plist) ==
    IF \E i \in 1..Len(syms) : syms[i] \in Range(plist) THEN 1 ELSE 0

\* lines 55-58: one increment per input symptom found in the entry's list
MatchScore(syms, plist) == MatchScoreFrom(syms, plist, 1)

\* a / b >= c / d and a / b = c / d for quotients with positive denominators
ScoreGeq(a, b) == a[1] * b[2] >= b[1] * a[2]
ScoreEq(a, b) == a[1] * b[2] = b[1] * a[2]

\* lines 52-64: the dict of matches, in the insertion order of the loop
RECURSIVE MatchesFrom(_, _)
MatchesFrom(syms, k) ==
    IF k > Len(PatternNames) THEN <<>>
    ELSE LET name == PatternNames[k]
             plist == PatternSymptoms(name)
             score == MatchScore(syms, plist)
         IN (IF score > 0
               THEN <<[name |-> name, score |-> <<score, Len(plist)>>]>>
               ELSE <<>>)
              \o MatchesFrom(syms, k + 1)

\* mutant: an unstable placement, an entry goes before the entries of equal score
InsertBeforeEqual(sorted, e) ==
    LET before == {i \in 1..Len(sorted) :
                     ~ ScoreGeq(e.score, sorted[i].score)}
        n == Cardinality(before)
    IN SubSeq(sorted, 1, n) \o <<e>> \o SubSeq(sorted, n + 1, Len(sorted))

\* sorted(..., reverse=True) is stable: an entry goes after every entry whose
\* score is greater or equal
InsertByScore(sorted, e) ==
    LET before == {i \in 1..Len(sorted) : ScoreGeq(sorted[i].score, e.score)}
        n == Cardinality(before)
    IN SubSeq(sorted, 1, n) \o <<e>> \o SubSeq(sorted, n + 1, Len(sorted))

RECURSIVE SortedByScore(_, _)
SortedByScore(items, k) ==
    IF k = 0 THEN <<>>
    ELSE InsertByScore(SortedByScore(items, k - 1), items[k])

\* lines 50-66
analyze_symptoms(syms) ==
    LET found == MatchesFrom(syms, 1)
    IN SortedByScore(found, Len(found))

MatcherIdle == symptoms = <<>> /\ matches = <<>> /\ m_pc = "off"
DtcIdle == codes = "" /\ found_codes = "" /\ d_pc = "off"
LabelIdle ==
    /\ target = <<>> /\ labels = <<>> /\ encoded_labels = <<>>
    /\ class_names = <<>> /\ l_pc = "off"
NoFrame == [columns |-> <<>>, rows |-> <<>>]
CleanIdle ==
    raw = NoFrame /\ df_clean = NoFrame /\ df_twice = NoFrame /\ k_pc = "off"
PipeIdle ==
    /\ args = <<>> /\ locals = <<>> /\ self = <<>> /\ output = <<>>
    /\ p_pc = "off" /\ p_error = "" /\ stages = <<>> /\ batch = "none"
    /\ fit_state = <<>>
CollectIdle ==
    /\ c_pc = "off" /\ task = <<>> /\ result = <<>> /\ uncaught = {}
    /\ failed = {} /\ collected_data = <<>> /\ log = <<>> /\ runs = 0
VehicleIdle ==
    vehicle_df = NoFrame /\ vehicle_features = <<>> /\ v_pc = "off"

MatcherInit ==
    /\ symptoms \in SeqsUpTo(SymptomTags, MaxSymptoms)
    /\ matches = <<>>
    /\ m_pc = "call"
    /\ DtcIdle /\ LabelIdle /\ CollectIdle /\ CleanIdle /\ PipeIdle
    /\ VehicleIdle

AnalyzeSymptoms ==
    /\ m_pc = "call"
    /\ matches' = analyze_symptoms(symptoms)
    /\ m_pc' = "done"
    /\ UNCHANGED <<symptoms, dtcVars, labelVars, collectVars, cleanVars, pipeVars,
                   vehicleVars>>

MatcherNext == AnalyzeSymptoms

SpecMatcher == MatcherInit /\ [][MatcherNext]_vars

(***************************************************************************)
(* Strings.  CharAt(s, i) is the one-character string s[i-1] of Python.    *)
(***************************************************************************)
\* np.nan / None in a column of strings: a reserved value no input text equals
NaN == "<NaN>"

isna(v) == v = NaN

CharAt(s, i) == SubSeq(s, i, i)

LowerLetters == "abcdefghijklmnopqrstuvwxyz"
UpperLetters == "ABCDEFGHIJKLMNOPQRSTUVWXYZ"
Digits == "0123456789"

CharIn(c, alphabet) == \E i \in 1..Len(alphabet) : CharAt(alphabet, i) = c

IndexIn(c, alphabet) == CHOOSE i \in 1..Len(alphabet) : CharAt(alphabet, i) = c

UpperChar(c) ==
    IF CharIn(c, LowerLetters) THEN CharAt(UpperLetters, IndexIn(c, LowerLetters))
    ELSE c

LowerChar(c) ==
    IF CharIn(c, UpperLetters) THEN CharAt(LowerLetters, IndexIn(c, UpperLetters))
    ELSE c

\* sep.join(parts)
RECURSIVE Join(_, _)
Join(parts, sep) ==
    IF Len(parts) = 0 THEN ""
    ELSE IF Len(parts) = 1 THEN parts[1]
    ELSE parts[1] \o sep \o Join(Tail(parts), sep)

\* the string made of the characters of a sequence of one-character strings
RECURSIVE Concat(_)
Concat(cs) ==
    IF Len(cs) = 0 THEN ""
    ELSE IF Len(cs) = 1 THEN cs[1]
    ELSE Concat(SubSeq(cs, 1, Len(cs) \div 2))
           \o Concat(SubSeq(cs, Len(cs) \div 2 + 1, Len(cs)))

str_upper(s) == Concat([i \in 1..Len(s) |-> UpperChar(CharAt(s, i))])

str_lower(s) == Concat([i \in 1..Len(s) |-> LowerChar(CharAt(s, i))])

StringsUpTo(alphabet, n) ==
    {Concat(cs) : cs \in SeqsUpTo({CharAt(alphabet, i) : i \in 1..Len(alphabet)}, n)}

(***************************************************************************)
(* clean_dtc_codes, lines 92-102.                                          *)
(***************************************************************************)
DtcLen == 5

\* mutant: the second character is any digit, [PCBU][0-9][0-9A-F]{3}
IsDtcAtAnyDigit(s, i) ==
    /\ i + DtcLen - 1 <= Len(s)
    /\ CharIn(CharAt(s, i), "PCBU")
    /\ CharIn(CharAt(s, i + 1), Digits)
    /\ \A k \in 2..4 : CharIn(CharAt(s, i + k), "0123456789ABCDEF")

\* line 99: dtc_pattern = r'[PCBU][0-3][0-9A-F]{3}' matches at position i
IsDtcAt(s, i) ==
    /\ i + DtcLen - 1 <= Len(s)
    /\ CharIn(CharAt(s, i), "PCBU")
    /\ CharIn(CharAt(s, i + 1), "0123")
    /\ \A k \in 2..4 : CharIn(CharAt(s, i + k), "0123456789ABCDEF")

\* line 100: re.findall, the non-overlapping matches from left to right
RECURSIVE FindAllDtc(_, _)
FindAllDtc(s, i) ==
    IF i > Len(s) THEN <<>>
    ELSE IF IsDtcAt(s, i)
           THEN <<SubSeq(s, i, i + DtcLen - 1)>> \o FindAllDtc(s, i + DtcLen)
           ELSE FindAllDtc(s, i + 1)

clean_dtc_codes(c) ==
    IF isna(c) THEN ""
    ELSE Join(FindAllDtc(str_upper(c), 1), " ")

\* The inputs: every short string over characters of each class of the
\* pattern (a class letter, a lowercase letter that is a class letter and a
\* hexadecimal digit once uppercased, a digit of 0-3, a digit outside 0-3,
\* a letter that is no hexadecimal digit, a separator), longer inputs
\* holding several codes, and the missing value.
DtcAlphabet == "Pb04G "

DtcExamples ==
    {"p0300, garbage, B1234X", "P0300 B1234", "u0100c1abcB0B0300",
     "P0G12 C2ZZZ U3FFF", "p0562;P0563 b1000"}

DtcInputs == StringsUpTo(DtcAlphabet, MaxDtcLen) \cup DtcExamples \cup {NaN}

DtcInit ==
    /\ codes \in DtcInputs
    /\ found_codes = ""
    /\ d_pc = "call"
    /\ MatcherIdle /\ LabelIdle /\ CollectIdle /\ CleanIdle /\ PipeIdle
    /\ VehicleIdle

CleanDtcCodes ==
    /\ d_pc = "call"
    /\ found_codes' = clean_dtc_codes(codes)
    /\ d_pc' = "done"
    /\ UNCHANGED <<codes, matcherVars, labelVars, collectVars, cleanVars, pipeVars,
                   vehicleVars>>

DtcNext == CleanDtcCodes

SpecDtc == DtcInit /\ [][DtcNext]_vars

(***************************************************************************)
(* encode_labels, lines 264-302 (the column is present).                   *)
(***************************************************************************)
\* the characters of the model's strings, in code-point order
CodePointOrder ==
    " !,-/0123456789;<>ABCDEFGHIJKLMNOPQRSTUVWXYZ_abcdefghijklmnopqrstuvwxyz"

\* a < b for Python strings
StrLess(a, b) ==
    LET differ == {i \in 1..Len(a) : i > Len(b) \/ CharAt(a, i) # CharAt(b, i)}
    IN IF differ = {} THEN Len(a) < Len(b)
       ELSE LET i == CHOOSE x \in differ : \A y \in differ : x <= y
            IN /\ i <= Len(b)
               /\ IndexIn(CharAt(a, i), CodePointOrder)
                    < IndexIn(CharAt(b, i), CodePointOrder)

IsSpace(c) == c = " "

\* str.strip()
str_strip(s) ==
    LET inked == {i \in 1..Len(s) : ~ IsSpace(CharAt(s, i))}
    IN IF inked = {} THEN ""
       ELSE SubSeq(s, CHOOSE i \in inked : \A j \in inked : i <= j,
                      CHOOSE i \in inked : \A j \in inked : i >= j)

StartsAt(s, i, key) ==
    i + Len(key) - 1 <= Len(s) /\ SubSeq(s, i, i + Len(key) - 1) = key

Contains(s, key) == \E i \in 1..Len(s) : StartsAt(s, i, key)

\* str.replace(key, value): the non-overlapping occurrences, left to right
RECURSIVE ReplaceFrom(_, _, _, _)
ReplaceFrom(s, i, key, value) ==
    LET occ == {j \in i..Len(s) : StartsAt(s, j, key)}
    IN IF occ = {} THEN SubSeq(s, i, Len(s))
       ELSE LET j == CHOOSE x \in occ : \A y \in occ : x <= y
            IN SubSeq(s, i, j - 1) \o value
                 \o ReplaceFrom(s, j + Len(key), key, value)

str_replace(s, key, value) == ReplaceFrom(s, 1, key, value)

\* lines 273-290: label_mapping, in the order of the dict
label_mapping ==
    << <<"battery", "Battery/Charging System">>,
       <<"charging", "Battery/Charging System">>,
       <<"alternator", "Battery/Charging System">>,
       <<"ground", "Ground Circuit">>,
       <<"grounding", "Ground Circuit">>,
       <<"lights", "Lighting System">>,
       <<"lighting", "Lighting System">>,
       <<"headlight", "Lighting System">>,
       <<"wiring", "Wiring Harness">>,
       <<"harness", "Wiring Harness">>,
       <<"wire", "Wiring Harness">>,
       <<"fuse", "Fuse/Relay">>,
       <<"relay", "Fuse/Relay">>,
       <<"switch", "Switch/Control Module">>,
       <<"module", "Switch/Control Module">>,
       <<"sensor", "Sensor Circuit">> >>

\* lines 293-294: the replacements from the k-th entry of the mapping on
RECURSIVE ApplyMapping(_, _)
ApplyMapping(s, k) ==
    IF k > Len(label_mapping) THEN s
    ELSE ApplyMapping(
           str_replace(s, label_mapping[k][1], str_lower(label_mapping[k][2])),
           k + 1)

\* lines 270-294 on one cell of the column
CanonicalLabel(text) == ApplyMapping(str_strip(str_lower(text)), 1)

\* LabelEncoder.fit: classes_ is the sorted list of the distinct labels
RECURSIVE SortedStrings(_)
SortedStrings(S) ==
    IF S = {} THEN <<>>
    ELSE LET least == CHOOSE x \in S : \A y \in S : x = y \/ StrLess(x, y)
         IN <<least>> \o SortedStrings(S \ {least})

\* LabelEncoder.transform: the index of each label in classes_, from 0
EncodeWith(classes, labs) ==
    [i \in 1..Len(labs) |->
       (CHOOSE k \in 1..Len(classes) : classes[k] = labs[i]) - 1]

\* The cells of the target column: each synonym alone, variants of case,
\* padding and inflection, and phrases.
LabelTexts ==
    {label_mapping[k][1] : k \in 1..Len(label_mapping)}
      \cup {"intermittent wiring harness issue", " Battery ", "Wires",
            "grounding fault", "blown fuse", "relay module", "headlights",
            "corroded connector", "unknown", "Wiring Harness",
            "battery/charging system", "sensor circuit"}

LabelInit ==
    /\ target \in UNION {[1..n -> LabelTexts] : n \in 1..MaxLabelRows}
    /\ labels = <<>>
    /\ encoded_labels = <<>>
    /\ class_names = <<>>
    /\ l_pc = "call"
    /\ MatcherIdle /\ DtcIdle /\ CollectIdle /\ CleanIdle /\ PipeIdle
    /\ VehicleIdle

EncodeLabels ==
    /\ l_pc = "call"
    /\ LET labs == [i \in 1..Len(target) |-> CanonicalLabel(target[i])]
           classes == SortedStrings(Range(labs))
       IN /\ labels' = labs
          /\ class_names' = classes
          /\ encoded_labels' = EncodeWith(classes, labs)
    /\ l_pc' = "done"
    /\ UNCHANGED <<target, matcherVars, dtcVars, collectVars, cleanVars, pipeVars,
                   vehicleVars>>

LabelNext == EncodeLabels

SpecLabels == LabelInit /\ [][LabelNext]_vars

(***************************************************************************)
(* C10: a description holding at least one synonym of the substitution     *)
(* table canonicalizes to exactly one category string of the taxonomy, so  *)
(* every class name coming from such a description is a taxonomy member.   *)
(***************************************************************************)
Taxonomy == {label_mapping[k][2] : k \in 1..Len(label_mapping)}

HasSynonym(text) ==
    \E k \in 1..Len(label_mapping) :
        Contains(str_strip(str_lower(text)), label_mapping[k][1])

C10_CanonicalInTaxonomy ==
    l_pc = "done" =>
        \A i \in 1..Len(target) :
            HasSynonym(target[i]) =>
                /\ labels[i] \in Taxonomy
                /\ class_names[encoded_labels[i] + 1] \in Taxonomy

\* the claim's example has been canonicalized
C10_ExampleEncoded ==
    /\ l_pc = "done"
    /\ target = <<"intermittent wiring harness issue">>
    /\ class_names = <<"intermittent wiring wiring harness wiring harness issue">>

(***************************************************************************)
(* Record sets.  A DataFrame is its column names and its rows, a row       *)
(* holding one value per column; the index labels are left out.  Columns   *)
(* of text hold strings or NaN, a numeric column integers or NumNaN.       *)
(***************************************************************************)
\* np.nan in a numeric column (the numbers of the model are not negative)
NumNaN == -1

NumericColumns == {"mileage"}

IsNumeric(col) == col \in NumericColumns

HasColumn(df, col) == col \in Range(df.columns)

ColumnIndex(df, col) == CHOOSE k \in 1..Len(df.columns) : df.columns[k] = col

Column(df, col) == [i \in 1..Len(df.rows) |-> df.rows[i][ColumnIndex(df, col)]]

\* df[col] = values
SetColumn(df, col, values) ==
    [df EXCEPT !.rows =
       [i \in 1..Len(df.rows) |->
          [df.rows[i] EXCEPT ![ColumnIndex(df, col)] = values[i]]]]

\* \w of the re module
IsWordChar(c) == CharIn(c, LowerLetters \o UpperLetters \o Digits \o "_")

\* line 85: re.sub(r'[^\w\s]', ' ', text)
PunctuationToSpace(c) == IF IsWordChar(c) \/ IsSpace(c) THEN c ELSE " "

PunctuationToSpaces(s) ==
    Concat([i \in 1..Len(s) |-> PunctuationToSpace(CharAt(s, i))])

\* line 88: ' '.join(text.split()); a space stays when it follows a word
\* and a word follows it somewhere
CollapseWhitespace(s) ==
    LET keep(i) ==
          \/ ~ IsSpace(CharAt(s, i))
          \/ /\ i > 1 /\ ~ IsSpace(CharAt(s, i - 1))
             /\ \E j \in (i + 1)..Len(s) : ~ IsSpace(CharAt(s, j))
    IN Concat([i \in 1..Len(s) |-> IF keep(i) THEN CharAt(s, i) ELSE ""])

\* mutant: the whitespace is left as it is
clean_text_uncollapsed(text) ==
    IF isna(text) THEN ""
    ELSE PunctuationToSpaces(str_lower(text))

\* lines 76-90
clean_text(text) ==
    IF isna(text) THEN ""
    ELSE CollapseWhitespace(PunctuationToSpaces(str_lower(text)))

\* Series.astype(str): a missing value becomes the text 'nan'
astype_str(v) == IF isna(v) THEN "nan" ELSE v

\* line 49: drop_duplicates keeps the first of the rows equal in every column
DropDuplicates(df) ==
    [df EXCEPT !.rows =
       SelectSeq([i \in 1..Len(df.rows) |-> <<i, df.rows[i]>>],
                 LAMBDA p : \A j \in 1..(p[1] - 1) : df.rows[j] # p[2])]

\* the rows without their positions
StripPositions(df) ==
    [df EXCEPT !.rows = [i \in 1..Len(df.rows) |-> df.rows[i][2]]]

drop_duplicates(df) == StripPositions(DropDuplicates(df))

\* line 52: lowercase, spaces and hyphens to underscores
NormalizeColumnChar(c) == IF c = " " \/ c = "-" THEN "_" ELSE LowerChar(c)

NormalizeColumnName(s) ==
    Concat([i \in 1..Len(s) |-> NormalizeColumnChar(CharAt(s, i))])

NormalizeColumns(df) ==
    [df EXCEPT !.columns =
       [k \in 1..Len(df.columns) |-> NormalizeColumnName(df.columns[k])]]

text_columns == <<"symptoms", "description", "repair_notes">>

\* lines 55-59
RECURSIVE CleanTextColumns(_, _)
CleanTextColumns(df, k) ==
    IF k > Len(text_columns) THEN df
    ELSE LET col == text_columns[k]
             next ==
               IF HasColumn(df, col)
                 THEN SetColumn(df, col,
                        [i \in 1..Len(df.rows) |->
                           clean_text(str_lower(astype_str(Column(df, col)[i])))])
                 ELSE df
         IN CleanTextColumns(next, k + 1)

\* the .str methods leave a missing value missing
LowerStrip(v) == IF isna(v) THEN NaN ELSE str_strip(str_lower(v))

\* lines 62-65
RECURSIVE CleanVehicleColumns(_, _)
CleanVehicleColumns(df, cols) ==
    IF Len(cols) = 0 THEN df
    ELSE LET next ==
               IF HasColumn(df, cols[1])
                 THEN SetColumn(df, cols[1],
                        [i \in 1..Len(df.rows) |->
                           LowerStrip(Column(df, cols[1])[i])])
                 ELSE df
         IN CleanVehicleColumns(next, Tail(cols))

\* lines 68-69
CleanDtcColumn(df) ==
    IF HasColumn(df, "dtc_codes")
      THEN SetColumn(df, "dtc_codes",
             [i \in 1..Len(df.rows) |->
                clean_dtc_codes(Column(df, "dtc_codes")[i])])
      ELSE df

\* Series.median(): the middle of the values that are present.  The numbers
\* of the model are even, so the mean of the two middle values is an integer.
Median(values) ==
    LET present == SelectSeq(values, LAMBDA v : v # NumNaN)
        n == Len(present)
        rank(i) == Cardinality({j \in 1..n :
                      present[j] < present[i] \/ (present[j] = present[i] /\ j < i)})
        at(r) == present[CHOOSE i \in 1..n : rank(i) = r]
    IN IF n = 0 THEN NumNaN
       ELSE IF n % 2 = 1 THEN at(n \div 2)
       ELSE (at(n \div 2 - 1) + at(n \div 2)) \div 2

\* lines 104-119
FillMissing(df, col) ==
    LET values == Column(df, col)
        fill == IF IsNumeric(col) THEN Median(values)
                ELSE IF col \in {"make", "model"} THEN "unknown"
                ELSE ""
        missing(v) == IF IsNumeric(col) THEN v = NumNaN ELSE isna(v)
    IN SetColumn(df, col,
         [i \in 1..Len(values) |-> IF missing(values[i]) THEN fill ELSE values[i]])

RECURSIVE HandleMissingFrom(_, _)
HandleMissingFrom(df, k) ==
    IF k > Len(df.columns) THEN df
    ELSE HandleMissingFrom(FillMissing(df, df.columns[k]), k + 1)

handle_missing_values(df) == HandleMissingFrom(df, 1)

\* lines 44-74
clean_data(df) ==
    handle_missing_values(
      CleanDtcColumn(
        CleanVehicleColumns(
          CleanTextColumns(NormalizeColumns(drop_duplicates(df)), 1),
          <<"make", "model">>)))

\* The record sets: up to MaxRows rows, each cell from the values of its
\* column; the make and the codes of a row are both present or both missing.
RawColumns == <<"Symptoms", "Make", "DTC-Codes", "mileage">>

SymptomCells == {"Battery dead!", "battery dead", NaN}

VehicleCells == {<<"Ford ", "p0300, B1234X">>, <<NaN, NaN>>}

MileageCells == {0, 60000, NumNaN}

RawRows ==
    {<<sy, vc[1], vc[2], mi>> :
       sy \in SymptomCells, vc \in VehicleCells, mi \in MileageCells}

RawFrames ==
    {[columns |-> RawColumns, rows |-> rs] :
       rs \in UNION {[1..n -> RawRows] : n \in 1..MaxRows}}

CleanInit ==
    /\ raw \in RawFrames
    /\ df_clean = NoFrame
    /\ df_twice = NoFrame
    /\ k_pc = "raw"
    /\ MatcherIdle /\ DtcIdle /\ LabelIdle /\ CollectIdle /\ PipeIdle
    /\ VehicleIdle

CleanOthers == <<matcherVars, dtcVars, labelVars, collectVars, pipeVars, vehicleVars>>

\* the Cleaning Stage on the raw record set
CleanData ==
    /\ k_pc = "raw"
    /\ df_clean' = clean_data(raw)
    /\ k_pc' = "clean"
    /\ UNCHANGED <<raw, df_twice, CleanOthers>>

\* the Cleaning Stage on its own result
CleanAgain ==
    /\ k_pc = "clean"
    /\ df_twice' = clean_data(df_clean)
    /\ k_pc' = "twice"
    /\ UNCHANGED <<raw, df_clean, CleanOthers>>

CleanNext == CleanData \/ CleanAgain

SpecClean == CleanInit /\ [][CleanNext]_vars

(***************************************************************************)
(* C3: cleaning twice gives what cleaning once gives, the same rows in the *)
(* same order with the same values.                                        *)
(***************************************************************************)
C3_CleanIdempotent == k_pc = "twice" => df_twice = df_clean

\* two raw rows that differ only in the writing of the symptom text are
\* both kept by the first pass, and the second pass drops one
C3_DuplicateAfterCleaning ==
    /\ k_pc = "twice"
    /\ Len(raw.rows) = 2
    /\ Len(df_clean.rows) = 2
    /\ df_clean.rows[1] = df_clean.rows[2]
    /\ Len(df_twice.rows) = 1

(***************************************************************************)
(* C12: after clean_data, every symptom/description/notes field whose raw  *)
(* value was missing holds the empty string, and every text field is       *)
(* either empty or lowercase with no punctuation and no repeated           *)
(* whitespace.                                                             *)
(***************************************************************************)
\* the raw records clean_data keeps, in the order of the cleaned records
KeptRaw == drop_duplicates(raw)

CleanTextForm(s) ==
    \A i \in 1..Len(s) :
        /\ ~ CharIn(CharAt(s, i), UpperLetters)
        /\ IsWordChar(CharAt(s, i)) \/ IsSpace(CharAt(s, i))
        /\ i > 1 => ~ (IsSpace(CharAt(s, i)) /\ IsSpace(CharAt(s, i - 1)))

C12_MissingTextIsEmpty ==
    k_pc \in {"clean", "twice"} =>
        \A k \in 1..Len(KeptRaw.columns) :
            NormalizeColumnName(KeptRaw.columns[k]) \in Range(text_columns) =>
                \A i \in 1..Len(df_clean.rows) :
                    LET cell == Column(df_clean, NormalizeColumnName(KeptRaw.columns[k]))[i]
                    IN /\ isna(KeptRaw.rows[i][k]) => cell = ""
                       /\ ~ isna(cell)
                       /\ CleanTextForm(cell)

\* a missing symptom text has become the text "nan"
C12_MissingBecomesNan ==
    /\ k_pc = "clean"
    /\ \E i \in 1..Len(df_clean.rows) :
         /\ isna(Column(KeptRaw, "Symptoms")[i])
         /\ Column(df_clean, "symptoms")[i] = "nan"

(***************************************************************************)
(* data-preprocessing.py: feature extraction.  A block of features is its  *)
(* column names; the values are kept for the integer-valued columns of the *)
(* vehicle and symptom blocks (the mileage category and the keyword        *)
(* indicators), one list per column, and the term weights are left to the  *)
(* vectorizer's state (vocabulary and document frequencies).               *)
(***************************************************************************)
NoBlock == [names |-> <<>>, values |-> <<>>]

ConcatBlocks(a, b) ==
    [names |-> a.names \o b.names, values |-> a.values \o b.values]

\* lines 157-159: pd.cut with bins [0, 50000, ..., inf] closed on the right
MileageBins == <<0, 50000, 100000, 150000, 200000>>

mileage_category(m) ==
    IF m = NumNaN \/ m <= MileageBins[1] THEN NumNaN
    ELSE Cardinality({k \in 1..Len(MileageBins) : MileageBins[k] < m}) - 1

common_makes == <<"ford", "chevrolet", "toyota", "honda", "nissan">>

\* lines 145-168 (the record sets of the model hold no year column)
extract_vehicle_features(df) ==
    LET mileage ==
          IF HasColumn(df, "mileage")
            THEN [names |-> <<"mileage_category">>,
                  values |-> <<[i \in 1..Len(df.rows) |->
                                  mileage_category(Column(df, "mileage")[i])]>>]
            ELSE NoBlock
        make ==
          IF HasColumn(df, "make")
            THEN [names |-> [k \in 1..Len(common_makes) |-> "make_" \o common_makes[k]]
                              \o <<"make_other">>,
                  values |->
                    [k \in 1..(Len(common_makes) + 1) |->
                       [i \in 1..Len(df.rows) |->
                          IF k <= Len(common_makes)
                            THEN (IF Column(df, "make")[i] = common_makes[k]
                                    THEN 1 ELSE 0)
                            ELSE (IF Column(df, "make")[i] \in Range(common_makes)
                                    THEN 0 ELSE 1)]]]
            ELSE NoBlock
    IN ConcatBlocks(mileage, make)

\* The record sets extract_vehicle_features is given: up to MaxRows records
\* with a non-negative mileage at or next to a breakpoint, with or without a
\* make.
MileageValues ==
    {0, 1, 50000, 50001, 100000, 100001, 150000, 200000, 200001}

MakeValues == {"ford", "bmw"}

VehicleFrames ==
    {[columns |-> <<"mileage">>, rows |-> rs] :
       rs \in UNION {[1..n -> {<<mi>> : mi \in MileageValues}] : n \in 0..MaxRows}}
    \cup
    {[columns |-> <<"mileage", "make">>, rows |-> rs] :
       rs \in UNION {[1..n -> {<<mi, ma>> : mi \in MileageValues, ma \in MakeValues}] :
                     n \in 1..MaxRows}}

VehicleInit ==
    /\ vehicle_df \in VehicleFrames
    /\ vehicle_features = <<>>
    /\ v_pc = "call"
    /\ MatcherIdle /\ DtcIdle /\ LabelIdle /\ CleanIdle /\ PipeIdle /\ CollectIdle

\* lines 145-168
ExtractVehicleFeatures ==
    /\ v_pc = "call"
    /\ vehicle_features' = extract_vehicle_features(vehicle_df)
    /\ v_pc' = "done"
    /\ UNCHANGED <<vehicle_df, matcherVars, dtcVars, labelVars, cleanVars,
                   pipeVars, collectVars>>

VehicleNext == ExtractVehicleFeatures

SpecVehicle == VehicleInit /\ [][VehicleNext]_vars

(***************************************************************************)
(* C11: every non-negative mileage is assigned exactly one of the bucket   *)
(* ordinals 0..4 defined by the breakpoints 50,000 / 100,000 / 150,000 /   *)
(* 200,000, and mileage 0 is assigned bucket 0.                            *)
(***************************************************************************)
MileageCategoryColumn == vehicle_features.values[1]

C11_EveryMileageBucketed ==
    v_pc = "done" =>
        \A i \in 1..Len(vehicle_df.rows) :
            LET m == Column(vehicle_df, "mileage")[i]
            IN m >= 0 =>
                 /\ MileageCategoryColumn[i] \in 0..4
                 /\ m = 0 => MileageCategoryColumn[i] = 0

\* mileage 0 has been given no bucket
C11_ZeroUnbucketed ==
    /\ v_pc = "done"
    /\ \E i \in 1..Len(vehicle_df.rows) :
         /\ Column(vehicle_df, "mileage")[i] = 0
         /\ MileageCategoryColumn[i] = NumNaN
         /\ vehicle_features.names[1] = "mileage_category"

\* lines 176-184
symptom_keywords ==
    << <<"battery", <<"battery", "dead", "weak", "won't start">> >>,
       <<"lights", <<"lights", "headlight", "dim", "flickering", "bright">> >>,
       <<"starting", <<"starting", "starter", "crank", "turn over">> >>,
       <<"charging", <<"charging", "alternator", "voltage">> >>,
       <<"electrical", <<"electrical", "power", "fuse", "blown", "short">> >>,
       <<"intermittent", <<"intermittent", "sometimes", "occasionally", "random">> >>,
       <<"multiple_systems", <<"multiple", "several", "various", "all">> >> >>

\* line 189: str.contains('|'.join(keywords))
ContainsAny(text, keywords) ==
    \E k \in 1..Len(keywords) : Contains(text, keywords[k])

\* text.split(' ') of a cleaned text: its words
RECURSIVE Words(_)
Words(text) ==
    LET spaces == {i \in 1..Len(text) : IsSpace(CharAt(text, i))}
    IN IF text = "" THEN <<>>
       ELSE IF spaces = {} THEN <<text>>
       ELSE LET i == CHOOSE x \in spaces : \A y \in spaces : x <= y
            IN (IF i > 1 THEN <<SubSeq(text, 1, i - 1)>> ELSE <<>>)
                 \o Words(SubSeq(text, i + 1, Len(text)))

\* stop_words='english': the words of the list that the model's texts hold
EnglishStopWords == {"the", "is", "and", "not", "all"}

\* TfidfVectorizer's analyzer: lowercase, the tokens of two or more word
\* characters, less the stop words
Tokens(text) ==
    SelectSeq(Words(PunctuationToSpaces(str_lower(text))),
              LAMBDA w : Len(w) >= 2 /\ w \notin EnglishStopWords)

max_features == 100

\* occurrences of a term in the documents
RECURSIVE TermCount(_, _)
TermCount(docs, term) ==
    IF Len(docs) = 0 THEN 0
    ELSE Cardinality({i \in 1..Len(Tokens(docs[1])) : Tokens(docs[1])[i] = term})
           + TermCount(Tail(docs), term)

\* the terms kept: all of them, or the max_features most frequent
LimitFeatures(docs, terms) ==
    IF Cardinality(terms) <= max_features THEN terms
    ELSE CHOOSE kept \in SUBSET terms :
           /\ Cardinality(kept) = max_features
           /\ \A t \in kept, u \in terms \ kept :
                  TermCount(docs, t) >= TermCount(docs, u)

Unfitted == [fitted |-> FALSE, vocabulary |-> <<>>, n_docs |-> 0, doc_freq |-> <<>>]

\* TfidfVectorizer.fit: the sorted vocabulary, and what the weights are
\* computed from (the number of documents and each term's document count)
FitVectorizer(docs) ==
    LET terms == UNION {Range(Tokens(docs[i])) : i \in 1..Len(docs)}
        vocabulary == SortedStrings(LimitFeatures(docs, terms))
    IN [fitted |-> TRUE,
        vocabulary |-> vocabulary,
        n_docs |-> Len(docs),
        doc_freq |-> [k \in 1..Len(vocabulary) |->
                        Cardinality({i \in 1..Len(docs) :
                                       vocabulary[k] \in Range(Tokens(docs[i]))})]]

\* fit raises ValueError when no term is left
EmptyVocabularyError ==
    "empty vocabulary; perhaps the documents only contain stop words"

DigitString(n) == CharAt(Digits, n + 1)

\* f'tfidf_{i}' for i below ten, the sizes the model reaches
TfidfNames(n) == [i \in 1..n |-> "tfidf_" \o DigitString(i - 1)]

\* line 193: self.symptom_vectorizer.fit_transform refits on every call
FitTransform(vectorizer, docs) == FitVectorizer(docs)

\* lines 170-198; the result is the block, the vectorizer after the call and
\* whether fit_transform raised
extract_symptom_features(vectorizer, df) ==
    IF ~ HasColumn(df, "symptoms")
      THEN [block |-> NoBlock, vectorizer |-> vectorizer, raised |-> FALSE]
    ELSE
      LET docs == Column(df, "symptoms")
          keywords ==
            [names |-> [k \in 1..Len(symptom_keywords) |->
                          "symptoms_" \o symptom_keywords[k][1]],
             values |-> [k \in 1..Len(symptom_keywords) |->
                           [i \in 1..Len(docs) |->
                              IF ContainsAny(docs[i], symptom_keywords[k][2])
                                THEN 1 ELSE 0]]]
          \* line 192: not df['symptoms'].isna().all(), true of no rows
          some_present == \E i \in 1..Len(docs) : ~ isna(docs[i])
          fitted == FitTransform(vectorizer, docs)
      IN IF ~ some_present
           THEN [block |-> keywords, vectorizer |-> vectorizer, raised |-> FALSE]
         ELSE IF Len(fitted.vocabulary) = 0
           THEN [block |-> keywords, vectorizer |-> vectorizer, raised |-> TRUE]
         ELSE [block |-> ConcatBlocks(keywords,
                           [names |-> TfidfNames(Len(fitted.vocabulary)),
                            values |-> <<>>]),
               vectorizer |-> fitted, raised |-> FALSE]

measurement_cols == <<"battery_voltage", "alternator_output", "ground_resistance">>

\* lines 200-226: the names of the columns, for the measurements present
extract_measurement_features(df) ==
    LET flags(col) ==
          CASE col = "battery_voltage" -> <<"battery_low", "battery_high">>
            [] col = "alternator_output" -> <<"alternator_low", "alternator_high">>
            [] col = "ground_resistance" -> <<"ground_high">>
        names(col) ==
          IF HasColumn(df, col) THEN <<col \o "_normalized">> \o flags(col) ELSE <<>>
        derived ==
          IF HasColumn(df, "battery_voltage") /\ HasColumn(df, "alternator_output")
            THEN <<"charging_differential", "charging_ratio">> ELSE <<>>
    IN [names |-> names(measurement_cols[1]) \o names(measurement_cols[2])
                    \o names(measurement_cols[3]) \o derived,
        values |-> <<>>]

\* lines 228-248: the names of the columns
extract_dtc_features(df) ==
    IF HasColumn(df, "dtc_codes")
      THEN [names |-> <<"dtc_p_count", "has_dtc_p", "dtc_b_count", "has_dtc_b",
                        "dtc_c_count", "has_dtc_c", "dtc_u_count", "has_dtc_u",
                        "total_dtc_count", "has_p0601", "has_p0562", "has_p0563",
                        "has_b1000", "has_u0100">>,
            values |-> <<>>]
      ELSE NoBlock

\* lines 250-262: the names of the columns
extract_temporal_features(df) ==
    IF HasColumn(df, "date") \/ HasColumn(df, "timestamp")
      THEN [names |-> <<"month", "season", "is_winter">>, values |-> <<>>]
      ELSE NoBlock

\* lines 121-143
extract_features(vectorizer, df) ==
    LET symptom == extract_symptom_features(vectorizer, df)
    IN [features |->
          ConcatBlocks(
            ConcatBlocks(
              ConcatBlocks(
                ConcatBlocks(extract_vehicle_features(df), symptom.block),
                extract_measurement_features(df)),
              extract_dtc_features(df)),
            extract_temporal_features(df)),
        vectorizer |-> symptom.vectorizer,
        raised |-> symptom.raised]

(***************************************************************************)
(* data-preprocessing.py: preprocess_pipeline, lines 304-361.              *)
(***************************************************************************)
\* lines 22-42: the frames of the files, concatenated; the files of one
\* directory have the same columns
load_raw_data(files) ==
    IF Len(files) = 0 THEN NoFrame
    ELSE [columns |-> files[1].columns,
          rows |-> files[1].rows
                     \o (IF Len(files) > 1 THEN files[2].rows ELSE <<>>)]

\* mutant: the check of line 310 is missing
NeverEmpty(df) == FALSE

\* DataFrame.empty: no column or no row
IsEmpty(df) == Len(df.columns) = 0 \/ Len(df.rows) = 0

EmptyInputError == "No data found to process"

MissingTargetError(col) == "Target column '" \o col \o "' not found in data"

OutputWriteError == "OSError: cannot create the output directory"

NoLabels == [is_none |-> TRUE]

\* lines 264-302: raises when the column is absent, else the encoded labels
\* and the classes
encode_labels(df, target_column) ==
    IF ~ HasColumn(df, target_column)
      THEN [raised |-> TRUE]
      ELSE LET labs == [i \in 1..Len(df.rows) |->
                          CanonicalLabel(Column(df, target_column)[i])]
               classes == SortedStrings(Range(labs))
           IN [raised |-> FALSE,
               labels |-> [is_none |-> FALSE, value |-> EncodeWith(classes, labs)],
               class_names |-> [is_none |-> FALSE, value |-> classes]]

\* mutant: the pipeline encodes the labels whatever the columns are
EncodeAlways(df, target_column) == TRUE

\* line 324: if target_column in df_clean.columns
TargetPresent(df, target_column) == HasColumn(df, target_column)

RECURSIVE SumSeq(_)
SumSeq(xs) == IF Len(xs) = 0 THEN 0 ELSE xs[1] + SumSeq(Tail(xs))

\* StandardScaler.fit: the number of columns, and for each column whose
\* values the model keeps the sum and the count of the values present (its
\* mean is their quotient)
FitScaler(features) ==
    [fitted |-> TRUE,
     n_features_in |-> Len(features.names),
     sums |-> [k \in 1..Len(features.values) |->
                 LET present == SelectSeq(features.values[k], LAMBDA v : v # NumNaN)
                 IN <<SumSeq(present), Len(present)>>]]

NewPreprocessor ==
    [label_encoders |-> <<>>,
     scaler |-> [fitted |-> FALSE],
     symptom_vectorizer |-> Unfitted,
     feature_names |-> <<>>]

NoLocals ==
    [df |-> NoFrame, df_clean |-> NoFrame, features |-> NoBlock,
     labels |-> NoLabels, class_names |-> NoLabels]

\* The input directories: no file, or one file of up to MaxRows rows, with
\* or without the fault_type column.
PipeSymptomCells == {"Battery dead!", "lights dim", "the"}

PipeMileageCells == {0, 60000}

PipeFiles ==
    {[columns |-> <<"symptoms", "mileage", "fault_type">>, rows |-> rs] :
       rs \in UNION {[1..n -> {<<sy, mi, "wiring">> :
                                 sy \in PipeSymptomCells, mi \in PipeMileageCells}] :
                     n \in 0..MaxRows}}
    \cup
    {[columns |-> <<"symptoms", "mileage">>, rows |-> rs] :
       rs \in UNION {[1..n -> {<<sy, mi>> :
                                 sy \in PipeSymptomCells, mi \in PipeMileageCells}] :
                     n \in 0..MaxRows}}

Directories == {<<>>} \cup {<<f>> : f \in PipeFiles}

\* the directories of a later run
LaterDirectories ==
    {<<>>,
     <<[columns |-> <<"symptoms", "mileage", "fault_type">>,
        rows |-> << <<"lights dim", 60000, "harness">> >>]>>,
     <<[columns |-> <<"symptoms", "mileage", "fault_type">>,
        rows |-> << <<"Battery dead!", 0, "wiring">>,
                    <<"starter will not crank", 60000, "relay">> >>]>>,
     <<[columns |-> <<"symptoms", "mileage">>,
        rows |-> << <<"Battery dead!", 60000>> >>]>>}

PipeInit ==
    /\ args \in [data_path : Directories, target_column : {"fault_type"}]
    /\ locals = NoLocals
    /\ self = NewPreprocessor
    /\ output = [files |-> {}, metadata |-> NoLabels]
    /\ p_pc = "call"
    /\ p_error = ""
    /\ stages = <<>>
    /\ batch = "fit"
    /\ fit_state = NewPreprocessor
    /\ MatcherIdle /\ DtcIdle /\ LabelIdle /\ CleanIdle /\ CollectIdle
    /\ VehicleIdle

PipeOthers == <<matcherVars, dtcVars, labelVars, cleanVars, collectVars, vehicleVars>>

\* lines 308-311
LoadRawData ==
    /\ p_pc = "call"
    /\ LET df == load_raw_data(args.data_path)
       IN /\ locals' = [locals EXCEPT !.df = df]
          /\ IF IsEmpty(df)
               THEN p_pc' = "error" /\ p_error' = EmptyInputError
               ELSE p_pc' = "loaded" /\ UNCHANGED p_error
    /\ stages' = Append(stages, "load")
    /\ UNCHANGED <<args, self, output, batch, fit_state, PipeOthers>>

\* lines 315-317
CleanStage ==
    /\ p_pc = "loaded"
    /\ locals' = [locals EXCEPT !.df_clean = clean_data(locals.df)]
    /\ stages' = Append(stages, "clean")
    /\ p_pc' = "cleaned"
    /\ UNCHANGED <<args, self, output, p_error, batch, fit_state, PipeOthers>>

\* lines 319-321
ExtractFeatures ==
    /\ p_pc = "cleaned"
    /\ LET got == extract_features(self.symptom_vectorizer, locals.df_clean)
       IN IF got.raised
            THEN /\ p_pc' = "error" /\ p_error' = EmptyVocabularyError
                 /\ UNCHANGED <<locals, self>>
            ELSE /\ p_pc' = "extracted" /\ UNCHANGED p_error
                 /\ locals' = [locals EXCEPT !.features = got.features]
                 /\ self' = [self EXCEPT !.symptom_vectorizer = got.vectorizer,
                                         !.feature_names = got.features.names]
    /\ stages' = Append(stages, "extract")
    /\ UNCHANGED <<args, output, batch, fit_state, PipeOthers>>

\* lines 323-329
EncodeStage ==
    /\ p_pc = "extracted"
    /\ IF TargetPresent(locals.df_clean, args.target_column)
         THEN LET got == encode_labels(locals.df_clean, args.target_column)
              IN IF got.raised
                   THEN /\ p_pc' = "error"
                        /\ p_error' = MissingTargetError(args.target_column)
                        /\ stages' = Append(stages, "encode")
                        /\ UNCHANGED <<locals, self>>
                   ELSE /\ p_pc' = "encoded" /\ UNCHANGED p_error
                        /\ stages' = Append(stages, "encode")
                        /\ locals' = [locals EXCEPT !.labels = got.labels,
                                                    !.class_names = got.class_names]
                        /\ self' = [self EXCEPT !.label_encoders =
                                      <<<<"fault_type", got.class_names.value>>>>]
         ELSE /\ p_pc' = "encoded"
              /\ locals' = [locals EXCEPT !.labels = NoLabels,
                                          !.class_names = NoLabels]
              /\ UNCHANGED <<p_error, stages, self>>
    /\ UNCHANGED <<args, output, batch, fit_state, PipeOthers>>

\* lines 331-332: self.scaler.fit_transform(features)
ScaleFeatures ==
    /\ p_pc = "encoded"
    /\ self' = [self EXCEPT !.scaler = FitScaler(locals.features)]
    /\ stages' = Append(stages, "scale")
    /\ p_pc' = "scaled"
    /\ UNCHANGED <<args, locals, output, p_error, batch, fit_state, PipeOthers>>

\* lines 334-336: mkdir creates the directory or raises
MakeOutputDir ==
    /\ p_pc = "scaled"
    /\ \E created \in BOOLEAN :
         IF created
           THEN p_pc' = "created" /\ UNCHANGED p_error
           ELSE p_pc' = "error" /\ p_error' = OutputWriteError
    /\ stages' = Append(stages, "mkdir")
    /\ UNCHANGED <<args, locals, self, output, batch, fit_state, PipeOthers>>

\* lines 338-361
SaveOutputs ==
    /\ p_pc = "created"
    /\ output' =
         [files |-> output.files
                      \cup {"features.npy", "metadata.json", "scaler.pkl",
                            "label_encoders.pkl", "symptom_vectorizer.pkl"}
                      \cup (IF locals.labels.is_none THEN {} ELSE {"labels.npy"}),
          metadata |-> [is_none |-> FALSE,
                        feature_names |-> self.feature_names,
                        class_names |-> locals.class_names,
                        num_features |-> Len(locals.features.names)]]
    /\ stages' = Append(stages, "save")
    /\ p_pc' = "done"
    /\ UNCHANGED <<args, locals, self, p_error, batch, fit_state, PipeOthers>>

\* preprocess_pipeline is called again on the fitted preprocessor, with a
\* later batch
LaterBatch ==
    /\ p_pc = "done"
    /\ batch = "fit"
    /\ batch' = "later"
    /\ fit_state' = self
    /\ args' \in [data_path : LaterDirectories, target_column : {"fault_type"}]
    /\ locals' = NoLocals
    /\ stages' = <<>>
    /\ p_pc' = "call"
    /\ UNCHANGED <<self, output, p_error, PipeOthers>>

PipeNext ==
    \/ LoadRawData
    \/ CleanStage
    \/ ExtractFeatures
    \/ EncodeStage
    \/ ScaleFeatures
    \/ MakeOutputDir
    \/ SaveOutputs
    \/ LaterBatch

SpecPipeline == PipeInit /\ [][PipeNext]_vars

(***************************************************************************)
(* C4 as stated: with the target column absent from the cleaned record     *)
(* set, the run aborts with the missing-target error instead of            *)
(* completing successfully.                                                *)
(***************************************************************************)
TargetAbsent ==
    /\ p_pc \notin {"call", "loaded"}
    /\ Len(locals.df_clean.rows) > 0
    /\ ~ HasColumn(locals.df_clean, args.target_column)

C4_AbortsOnMissingTarget ==
    TargetAbsent => p_pc \notin {"encoded", "scaled", "created", "done"}

\* C4 amended: with the target column absent from the cleaned record set,
\* preprocess_pipeline skips the label encoding and never raises the
\* missing-target error: labels and class names are None, and a run that
\* completes has written metadata with class_names None and, in a first run
\* on the output directory, no labels artifact.
C4_CompletesWithoutLabels ==
    TargetAbsent =>
        /\ "encode" \notin Range(stages)
        /\ p_error # MissingTargetError(args.target_column)
        /\ p_pc \in {"encoded", "scaled", "created", "done"} =>
             locals.labels = NoLabels /\ locals.class_names = NoLabels
        /\ p_pc = "done" =>
             /\ output.metadata.class_names = NoLabels
             /\ batch = "fit" => "labels.npy" \notin output.files

C4_Witness ==
    /\ TargetAbsent
    /\ p_pc = "done"
    /\ batch = "fit"
    /\ stages = <<"load", "clean", "extract", "scale", "mkdir", "save">>
    /\ output.files = {"features.npy", "metadata.json", "scaler.pkl",
                       "label_encoders.pkl", "symptom_vectorizer.pkl"}

(***************************************************************************)
(* C5: after a preprocessor has been fit on one batch, the symptom         *)
(* features of a later batch are computed with the fitted vocabulary and   *)
(* weights unchanged, so the transformation state after the later batch    *)
(* equals the state after the fit batch, and so do the feature names.      *)
(***************************************************************************)
C5_FittedStateReused ==
    (batch = "later" /\ p_pc \in {"extracted", "encoded", "scaled", "created", "done"}) =>
        /\ self.symptom_vectorizer = fit_state.symptom_vectorizer
        /\ self.feature_names = fit_state.feature_names
        /\ p_pc = "done" => self.scaler = fit_state.scaler

\* the later batch has refit the vocabulary
C5_Refit ==
    /\ batch = "later" /\ p_pc = "extracted"
    /\ fit_state.symptom_vectorizer.vocabulary = <<"battery", "dead">>
    /\ self.symptom_vectorizer.vocabulary = <<"dim", "lights">>

(***************************************************************************)
(* C8: when the input directory yields no records, preprocess_pipeline     *)
(* fails with the empty-input error before cleaning, feature extraction,   *)
(* scaling or any write to the output directory.                           *)
(***************************************************************************)
NoRecords == p_pc # "call" /\ Len(load_raw_data(args.data_path).rows) = 0

C8_EmptyInputFailsFirst ==
    NoRecords =>
        /\ p_pc = "error"
        /\ p_error = EmptyInputError
        /\ stages = <<"load">>
        /\ locals.df_clean = NoFrame /\ locals.features = NoBlock
        /\ batch = "fit" =>
             /\ output.files = {}
             /\ self = NewPreprocessor

\* a directory holding one file that has columns and no rows
C8_Witness ==
    /\ p_pc = "error"
    /\ p_error = EmptyInputError
    /\ Len(args.data_path) = 1
    /\ Len(locals.df.columns) = 3
    /\ Len(locals.df.rows) = 0

(***************************************************************************)
(* automated-pipeline.py: daily_data_collection.  The scheduler thread     *)
(* submits two tasks to a ThreadPoolExecutor of four workers, so each task *)
(* runs on a thread of its own, and waits for their results.               *)
(***************************************************************************)
\* the keys of the dict of line 29, in order
Sources == <<"nhtsa", "synthetic">>

None == "None"

\* what the collaborator of a source returns
DataOf(t) == IF t = "nhtsa" THEN "makes" ELSE "scenarios"

ErrorRecord(t) ==
    IF t = "nhtsa" THEN "ERROR NHTSA collection failed"
    ELSE "ERROR Synthetic generation failed"

StartRecord == "INFO Starting daily data collection..."

\* get_vehicle_makes / generate_wiring_fault_scenarios: a collaborator
\* returns its records or raises an Exception
CollaboratorOutcomes == {"returned", "raised"}

\* mutant: the task has no try/except, the exception reaches the future
ExceptionEscapes(t) == FALSE

\* lines 39 and 48: except Exception catches the collaborator's failure
ExceptionCaught(t) == TRUE

\* mutant: result() does not block
ResultWithoutWaiting(t) == TRUE

\* Future.result() returns once the task has finished
FutureDone(t) == task[t] = "finished"

CollectInit ==
    /\ c_pc = "idle"
    /\ task = [t \in Range(Sources) |-> "unsubmitted"]
    /\ result = [t \in Range(Sources) |-> "unset"]
    /\ uncaught = {}
    /\ failed = {}
    /\ collected_data = <<>>
    /\ log = <<>>
    /\ runs = 0
    /\ MatcherIdle /\ DtcIdle /\ LabelIdle /\ CleanIdle /\ PipeIdle
    /\ VehicleIdle

Others == <<matcherVars, dtcVars, labelVars, cleanVars, pipeVars, vehicleVars>>

\* line 60 / 20-21: the scheduler starts a daily run
StartDailyCollection ==
    /\ c_pc \in {"idle", "done"}
    /\ runs < MaxRuns
    /\ runs' = runs + 1
    /\ task' = [t \in Range(Sources) |-> "unsubmitted"]
    /\ result' = [t \in Range(Sources) |-> "unset"]
    /\ uncaught' = {}
    /\ failed' = {}
    /\ collected_data' = <<>>
    /\ log' = Append(log, StartRecord)
    /\ c_pc' = "submit_nhtsa"
    /\ UNCHANGED Others

\* line 25
SubmitNhtsa ==
    /\ c_pc = "submit_nhtsa"
    /\ task' = [task EXCEPT !["nhtsa"] = "pending"]
    /\ c_pc' = "submit_synthetic"
    /\ UNCHANGED <<result, uncaught, failed, collected_data, log, runs, Others>>

\* line 26
SubmitSynthetic ==
    /\ c_pc = "submit_synthetic"
    /\ task' = [task EXCEPT !["synthetic"] = "pending"]
    /\ c_pc' = "result_nhtsa"
    /\ UNCHANGED <<result, uncaught, failed, collected_data, log, runs, Others>>

\* a worker thread picks the task up
TaskStart(t) ==
    /\ task[t] = "pending"
    /\ task' = [task EXCEPT ![t] = "running"]
    /\ UNCHANGED <<c_pc, result, uncaught, failed, collected_data, log, runs,
                   Others>>

\* lines 36-38 and 45-47: the call of the collaborator
TaskCall(t) ==
    /\ task[t] = "running"
    /\ \E outcome \in CollaboratorOutcomes :
         IF outcome = "returned"
           THEN /\ result' = [result EXCEPT ![t] = DataOf(t)]
                /\ task' = [task EXCEPT ![t] = "finished"]
                /\ UNCHANGED <<uncaught, failed>>
           ELSE /\ failed' = failed \cup {t}
                /\ IF ExceptionCaught(t)
                     THEN /\ task' = [task EXCEPT ![t] = "except"]
                          /\ UNCHANGED <<result, uncaught>>
                     ELSE /\ task' = [task EXCEPT ![t] = "finished"]
                          /\ uncaught' = uncaught \cup {t}
                          /\ UNCHANGED result
    /\ UNCHANGED <<c_pc, collected_data, log, runs, Others>>

\* lines 39-41 and 48-50: the handler logs the error and returns None
TaskExcept(t) ==
    /\ task[t] = "except"
    /\ log' = Append(log, ErrorRecord(t))
    /\ result' = [result EXCEPT ![t] = None]
    /\ task' = [task EXCEPT ![t] = "finished"]
    /\ UNCHANGED <<c_pc, uncaught, failed, collected_data, runs, Others>>

\* line 30: nhtsa_future.result(); an exception held by the future is raised
ResultNhtsa ==
    /\ c_pc = "result_nhtsa"
    /\ FutureDone("nhtsa")
    /\ IF "nhtsa" \in uncaught
         THEN c_pc' = "unwind" /\ UNCHANGED collected_data
         ELSE /\ c_pc' = "result_synthetic"
              /\ collected_data' = <<result["nhtsa"]>>
    /\ UNCHANGED <<task, result, uncaught, failed, log, runs, Others>>

\* line 31: synthetic_future.result()
ResultSynthetic ==
    /\ c_pc = "result_synthetic"
    /\ FutureDone("synthetic")
    /\ IF "synthetic" \in uncaught
         THEN c_pc' = "unwind" /\ UNCHANGED collected_data
         ELSE /\ c_pc' = "validate"
              /\ collected_data' = Append(collected_data, result["synthetic"])
    /\ UNCHANGED <<task, result, uncaught, failed, log, runs, Others>>

\* lines 54-57: one record per source whose data is not None, in dict order
RECURSIVE ProcessedRecords(_, _)
ProcessedRecords(data, k) ==
    IF k > Len(data) THEN <<>>
    ELSE (IF data[k] # None
            THEN <<"INFO " \o Sources[k] \o " data processed successfully">>
            ELSE <<>>)
           \o ProcessedRecords(data, k + 1)

\* lines 29 and 52-57: validate_and_store_data(collected_data)
ValidateAndStoreData ==
    /\ c_pc = "validate"
    /\ log' = log \o ProcessedRecords(collected_data, 1)
    /\ c_pc' = "shutdown"
    /\ UNCHANGED <<task, result, uncaught, failed, collected_data, runs, Others>>

\* line 23: leaving the with block waits for every submitted task; an
\* exception raised inside the block then leaves daily_data_collection
ExecutorShutdown ==
    /\ c_pc \in {"shutdown", "unwind"}
    /\ \A t \in Range(Sources) : task[t] \in {"unsubmitted", "finished"}
    /\ c_pc' = IF c_pc = "unwind" THEN "aborted" ELSE "done"
    /\ UNCHANGED <<task, result, uncaught, failed, collected_data, log, runs,
                   Others>>

CollectNext ==
    \/ StartDailyCollection
    \/ SubmitNhtsa
    \/ SubmitSynthetic
    \/ \E t \in Range(Sources) : TaskStart(t)
    \/ \E t \in Range(Sources) : TaskCall(t)
    \/ \E t \in Range(Sources) : TaskExcept(t)
    \/ ResultNhtsa
    \/ ResultSynthetic
    \/ ValidateAndStoreData
    \/ ExecutorShutdown

SpecCollect == CollectInit /\ [][CollectNext]_vars

(***************************************************************************)
(* C6: when exactly one of the two sources fails, the failure is logged    *)
(* and stands as None for that source, the other source's result reaches   *)
(* validate_and_store_data and is processed, and the run does not abort:   *)
(* it never unwinds, and it stops nowhere before its end.                  *)
(***************************************************************************)
IndexOfSource(t) == CHOOSE k \in 1..Len(Sources) : Sources[k] = t

\* the records of the current run: those from its start record on
RunLog ==
    LET starts == {i \in 1..Len(log) : log[i] = StartRecord}
    IN IF starts = {} THEN <<>>
       ELSE SubSeq(log, CHOOSE i \in starts : \A j \in starts : i >= j, Len(log))

C6_OneFailureIsolated ==
    \A t \in Range(Sources) :
        failed = {t} =>
            LET o == CHOOSE x \in Range(Sources) : x # t
            IN /\ c_pc \notin {"unwind", "aborted"}
               /\ (c_pc \notin {"done"}) => ENABLED CollectNext
               /\ task[t] = "finished" =>
                    /\ result[t] = None
                    /\ ErrorRecord(t) \in Range(RunLog)
               /\ c_pc \in {"shutdown", "done"} =>
                    /\ collected_data[IndexOfSource(t)] = None
                    /\ collected_data[IndexOfSource(o)] = DataOf(o)
                    /\ ("INFO " \o o \o " data processed successfully")
                         \in Range(RunLog)
                    /\ ("INFO " \o t \o " data processed successfully")
                         \notin Range(RunLog)

C6_Witness ==
    /\ c_pc = "done"
    /\ failed = {"nhtsa"}
    /\ collected_data = <<None, "scenarios">>
    /\ RunLog = <<StartRecord, "ERROR NHTSA collection failed",
                  "INFO synthetic data processed successfully">>

(***************************************************************************)
(* C7: under every interleaving, validate_and_store_data starts only after *)
(* both tasks have completed.                                              *)
(***************************************************************************)
C7_ValidateAfterBoth ==
    [][(c_pc = "validate" /\ c_pc' # "validate")
         => \A t \in Range(Sources) : task[t] = "finished"]_vars

\* validate_and_store_data has run in a run where the second task finished
\* first
C7_Witness ==
    /\ c_pc = "shutdown"
    /\ task["synthetic"] = "finished"
    /\ task["nhtsa"] = "finished" /\ failed = {"synthetic"}
    /\ RunLog = <<StartRecord, "ERROR Synthetic generation failed",
                  "INFO nhtsa data processed successfully">>

(***************************************************************************)
(* C9.  A reading of "the valid codes of the uppercased input, in input    *)
(* order": the set P of start positions such that every position of P      *)
(* starts a valid code, the codes at P do not overlap, and no position     *)
(* outside the codes at P starts a valid code.  The codes at P, in         *)
(* increasing position, joined by single spaces, are the expected result.  *)
(***************************************************************************)
\* the claim's code format: P/C/B/U, a digit of 0-3, three alphanumerics
IsAlnumCodeAt(s, i) ==
    /\ i + 4 <= Len(s)
    /\ CharIn(CharAt(s, i), "PCBU")
    /\ CharIn(CharAt(s, i + 1), "0123")
    /\ \A k \in 2..4 : CharIn(CharAt(s, i + k), Digits \o UpperLetters)

\* the code format with three hexadecimal characters
IsHexCodeAt(s, i) ==
    /\ i + 4 <= Len(s)
    /\ CharIn(CharAt(s, i), "PCBU")
    /\ CharIn(CharAt(s, i + 1), "0123")
    /\ \A k \in 2..4 : CharIn(CharAt(s, i + k), Digits \o "ABCDEF")

Covered(P, q) == \E p \in P : p <= q /\ q < p + 5

CodeStarts(s, Valid(_, _)) ==
    LET starts == {i \in 1..Len(s) : Valid(s, i)}
    IN CHOOSE P \in SUBSET starts :
         /\ \A p1, p2 \in P : p1 < p2 => p1 + 5 <= p2
         /\ \A q \in starts : q \in P \/ Covered(P, q)

RECURSIVE CodesAt(_, _)
CodesAt(s, P) ==
    IF P = {} THEN <<>>
    ELSE LET p == CHOOSE x \in P : \A y \in P : x <= y
         IN <<SubSeq(s, p, p + 4)>> \o CodesAt(s, P \ {p})

ExpectedCodes(c, Valid(_, _)) ==
    IF c = NaN THEN ""
    ELSE LET u == str_upper(c)
         IN Join(CodesAt(u, CodeStarts(u, Valid)), " ")

\* C9 as stated (three alphanumeric characters): clean_dtc_codes returns the
\* valid codes of the uppercased input, in order, joined by single spaces;
\* a missing input gives the empty string.
C9_AlnumCodes ==
    d_pc = "done" => found_codes = ExpectedCodes(codes, IsAlnumCodeAt)

\* C9 amended (three hexadecimal characters, 0-9 and A-F): clean_dtc_codes
\* returns the valid codes of the uppercased input, in order, joined by
\* single spaces; a missing input gives the empty string.
C9_HexCodes ==
    d_pc = "done" => found_codes = ExpectedCodes(codes, IsHexCodeAt)

C9_Witness ==
    /\ d_pc = "done"
    /\ codes = "p0300, garbage, B1234X"
    /\ found_codes = "P0300 B1234"

(***************************************************************************)
(* C1: for an input that is a set of tags (no tag twice), analyze_symptoms *)
(* returns exactly the entries sharing a tag with the input, each once,    *)
(* and the score of an entry is |input tags in its list| / |its list|.     *)
(***************************************************************************)
SharedTags(name) == Range(symptoms) \cap Range(PatternSymptoms(name))

C1_ScoreIsSharedOverSize ==
    (m_pc = "done" /\ NoDuplicates(symptoms)) =>
        /\ {matches[i].name : i \in 1..Len(matches)}
             = {n \in Range(PatternNames) : SharedTags(n) # {}}
        /\ \A i, j \in 1..Len(matches) :
               matches[i].name = matches[j].name => i = j
        /\ \A i \in 1..Len(matches) :
               matches[i].score
                 = <<Cardinality(SharedTags(matches[i].name)),
                     Len(PatternSymptoms(matches[i].name))>>

C1_Witness ==
    /\ m_pc = "done"
    /\ symptoms = <<"intermittent_connection", "voltage_drop">>
    /\ Len(matches) = 2
    /\ matches[1] = [name |-> "wire_degradation", score |-> <<2, 3>>]
    /\ matches[2] = [name |-> "terminal_crimping_failure", score |-> <<1, 3>>]

(***************************************************************************)
(* C2: the returned list is in descending order of score, and entries of   *)
(* equal score keep the order in which the knowledge base declares them.   *)
(***************************************************************************)
DeclIndex(name) == CHOOSE k \in 1..Len(PatternNames) : PatternNames[k] = name

C2_DescendingStable ==
    m_pc = "done" =>
        \A i, j \in 1..Len(matches) :
            i < j =>
              /\ ScoreGeq(matches[i].score, matches[j].score)
              /\ ScoreEq(matches[i].score, matches[j].score)
                   => DeclIndex(matches[i].name) < DeclIndex(matches[j].name)

\* a later-declared entry outranks an earlier one, and two entries tie
C2_Witness ==
    /\ m_pc = "done"
    /\ Len(matches) = 3
    /\ matches[1].name = "terminal_crimping_failure"
    /\ matches[2].name = "wire_degradation"
    /\ matches[3].name = "insulation_failure"
    /\ ScoreEq(matches[2].score, matches[3].score)
    /\ ~ ScoreEq(matches[1].score, matches[2].score)

=============================================================================
